---- MODULE Spec2Model ----
(***************************************************************************)
(* Model of provisioning/baremetal_pod.go of cluster-baremetal-operator:   *)
(* the reconciler of the metal3 deployment (EnsureMetal3Deployment,        *)
(* GetDeploymentState, DeleteMetal3Deployment) and the rendering of the    *)
(* deployment's pod template (containers, init containers, proxy and       *)
(* trusted-CA injection).                                                  *)
(*                                                                         *)
(* Time is counted in minutes.  Only differences of time stamps are ever   *)
(* read (time.Since), so the clock is kept inside 0..MaxTime by shifting   *)
(* every stored time stamp once the clock reaches MaxTime; an elapsed time *)
(* saturates at MaxTime, which is larger than the rollout timeout.         *)
(*                                                                         *)
(* Errors are chains of messages: <<>> is nil, fmt.Errorf("m: %w", e) puts *)
(* m in front of the chain e.                                              *)
(***************************************************************************)
EXTENDS Integers, Sequences, FiniteSets, TLC

VARIABLES
    now,                          \* the wall clock (minutes)
    deploymentRolloutStartTime,   \* package variable, baremetal_pod.go:69
    deployment,                   \* the metal3 deployment held by the orchestrator
    generations,                  \* info.ProvConfig.Status.Generations (0: none recorded)
    rendered,                     \* what newMetal3Deployment rendered, and from which snapshot
    reinjected,                   \* injectProxyAndCA applied again to rendered lists
    last                          \* the last call of the API and what it returned

vars == <<now, deploymentRolloutStartTime, deployment, generations, rendered, reinjected, last>>

----------------------------------------------------------------------------
(* Bounds *)

MaxTime == 6

MaxGen == 2

MaxConds == 2

----------------------------------------------------------------------------
(* Program constants *)

deploymentRolloutTimeout == 5

metal3AppName == "metal3"

cboLabelName == "baremetal.openshift.io/cluster-baremetal-operator"

stateService == "stateService"

Max(a, b) == IF a > b THEN a ELSE b

----------------------------------------------------------------------------
(* Errors *)

NilErr == <<>>

Errorf(msg, e) == <<msg>> \o e

ErrNotFound == <<"not found">>

ErrTransient == <<"server unavailable">>

ErrInvalid == <<"field is immutable">>

ErrOwner == <<"cross-namespace owner reference">>

IgnoreNotFound(e) == IF e = ErrNotFound THEN NilErr ELSE e

----------------------------------------------------------------------------
(* The objects of the orchestrator *)

NilSelector == [ptr |-> "nil", MatchLabels |-> {}]

NewLabels == {<<"k8s-app", metal3AppName>>, <<cboLabelName, stateService>>}

OldLabels == {<<"k8s-app", metal3AppName>>}

NoDeployment == [exists |-> FALSE, Selector |-> {}, Conditions |-> <<>>, Generation |-> 0]

CondTypes == {"Available", "Progressing", "ReplicaFailure"}

CondStatuses == {"True", "False", "Unknown"}

Conds == [Type : CondTypes, Status : CondStatuses]

CondLists == UNION {[1..n -> Conds] : n \in 0..MaxConds}

Cond(t, s) == [Type |-> t, Status |-> s]

\* the condition lists a deployment goes through while it rolls out
RolloutConds ==
    { <<>>,
      <<Cond("Available", "False"), Cond("Progressing", "True")>>,
      <<Cond("Available", "True"), Cond("Progressing", "True")>>,
      <<Cond("Progressing", "False"), Cond("ReplicaFailure", "True")>> }

Live(labels, conds, gen) ==
    [exists |-> TRUE, Selector |-> labels, Conditions |-> conds, Generation |-> gen]

\* client.Deployments(ns).Get: the object, or an error
GetOutcomes(d) ==
    IF d.exists
    THEN {[err |-> NilErr, obj |-> d], [err |-> ErrTransient, obj |-> NoDeployment]}
    ELSE {[err |-> ErrNotFound, obj |-> NoDeployment], [err |-> ErrTransient, obj |-> NoDeployment]}

\* client.Deployments(ns).Delete: nil (the object is removed), or an error
DeleteOutcomes(d) ==
    IF d.exists
    THEN {[err |-> NilErr], [err |-> ErrTransient]}
    ELSE {[err |-> ErrNotFound], [err |-> ErrTransient]}

\* resourceapply.ApplyDeployment(client, recorder, required, expectedGeneration):
\* (the resulting object, whether it was changed, the error).  An absent
\* deployment is created; a live one is left alone when the recorded generation
\* is its generation, or updated; an update that changes the selector is
\* rejected (the selector is immutable).
ApplyOutcomes(d, expectedGeneration, required) ==
    LET fail(e) == [err |-> e, updated |-> FALSE, obj |-> d]
        ok(u, o) == [err |-> NilErr, updated |-> u, obj |-> o]
    IN  IF ~d.exists
        THEN {ok(TRUE, Live(required.Selector.MatchLabels, <<>>, 1)), fail(ErrTransient)}
        ELSE IF d.Selector # required.Selector.MatchLabels
        THEN {fail(ErrInvalid), fail(ErrTransient)}
        ELSE {fail(ErrTransient)}
             \cup (IF expectedGeneration = d.Generation THEN {ok(FALSE, d)} ELSE {ok(TRUE, d)})
             \cup (IF d.Generation < MaxGen
                   THEN {ok(TRUE, [d EXCEPT !.Generation = @ + 1])} ELSE {})

\* equality.Semantic.DeepEqual on two *metav1.LabelSelector: by value
SemanticDeepEqual(a, b) ==
    /\ (a.ptr = "nil") = (b.ptr = "nil")
    /\ a.MatchLabels = b.MatchLabels

----------------------------------------------------------------------------
(* Rendering: the environment variables *)

EnvVar(name, value) == [Name |-> name, Value |-> value]

FieldRef(path) == "fieldRef:" \o path

SecretKeyRef(secret, key) == "secretKeyRef:" \o secret \o "/" \o key

\* getMetal3DeploymentConfig(name, config): the configured value of the
\* variable, or "nil".  The provisioning IP is nil when no static IP is set.
getMetal3DeploymentConfig(name, config) ==
    IF name = "provisioningIP"
    THEN (IF config.ProvisioningIP = "" THEN "nil" ELSE config.ProvisioningIP)
    ELSE "config:" \o name

buildEnvVar(name, config) ==
    LET value == getMetal3DeploymentConfig(name, config)
    IN  IF value # "nil" THEN EnvVar(name, value)
        ELSE IF name = "provisioningIP" /\ config.ProvisioningNetwork = "Disabled"
        THEN EnvVar(name, FieldRef("status.hostIP"))
        ELSE EnvVar(name, "")

setIronicHtpasswdHash(name, secretName) == EnvVar(name, SecretKeyRef(secretName, "ironicHtpasswdKey"))

setIronicExternalIp(name, config) ==
    IF config.ProvisioningNetwork # "Disabled" /\ config.VirtualMediaViaExternalNetwork
    THEN EnvVar(name, FieldRef("status.hostIP"))
    ELSE EnvVar(name, "")

getWatchNamespace(config) ==
    IF config.WatchAllNamespaces
    THEN EnvVar("WATCH_NAMESPACE", "")
    ELSE EnvVar("WATCH_NAMESPACE", FieldRef("metadata.namespace"))

buildSSHKeyEnvVar(sshKey) == EnvVar("IRONIC_RAMDISK_SSH_KEY", sshKey)

mariadbPassword == EnvVar("MARIADB_PASSWORD", SecretKeyRef("baremetalSecretName", "baremetalSecretKey"))

pullSecret == EnvVar("IRONIC_AGENT_PULL_SECRET", SecretKeyRef("pullSecretName", "openshiftConfigSecretKey"))

RECURSIVE Join(_, _)
\* strings.Join(elems, sep)
Join(elems, sep) ==
    IF elems = <<>> THEN ""
    ELSE IF Len(elems) = 1 THEN elems[1]
    ELSE elems[1] \o sep \o Join(Tail(elems), sep)

\* envWithMasterMacAddresses when the variable is put in front
envWithMasterMacAddresses_First(envVars, macs) ==
    <<EnvVar("PROVISIONING_MACS", Join(macs, ","))>> \o envVars

envWithMasterMacAddresses(envVars, macs) ==
    Append(envVars, EnvVar("PROVISIONING_MACS", Join(macs, ",")))

\* envWithProxy when a variable that is already there is not added again
envWithProxy_Once(proxy, envVars) ==
    LET has(es, n) == \E k \in 1..Len(es) : es[k].Name = n
        add(es, n, v) == IF v # "" /\ ~has(es, n) THEN Append(es, EnvVar(n, v)) ELSE es
    IN  IF proxy.isNil THEN envVars
        ELSE add(add(add(envVars, "HTTP_PROXY", proxy.HTTPProxy),
                     "HTTPS_PROXY", proxy.HTTPSProxy),
                 "NO_PROXY", proxy.NoProxy)

\* envWithProxy when the third variable is named as the first
envWithProxy_RepeatsName(proxy, envVars) ==
    IF proxy.isNil THEN envVars
    ELSE LET e1 == IF proxy.HTTPProxy # ""
                   THEN Append(envVars, EnvVar("HTTP_PROXY", proxy.HTTPProxy)) ELSE envVars
             e2 == IF proxy.HTTPSProxy # ""
                   THEN Append(e1, EnvVar("HTTPS_PROXY", proxy.HTTPSProxy)) ELSE e1
             e3 == IF proxy.NoProxy # ""
                   THEN Append(e2, EnvVar("HTTP_PROXY", proxy.NoProxy)) ELSE e2
         IN  e3

envWithProxy(proxy, envVars) ==
    IF proxy.isNil THEN envVars
    ELSE LET e1 == IF proxy.HTTPProxy # ""
                   THEN Append(envVars, EnvVar("HTTP_PROXY", proxy.HTTPProxy)) ELSE envVars
             e2 == IF proxy.HTTPSProxy # ""
                   THEN Append(e1, EnvVar("HTTPS_PROXY", proxy.HTTPSProxy)) ELSE e1
             e3 == IF proxy.NoProxy # ""
                   THEN Append(e2, EnvVar("NO_PROXY", proxy.NoProxy)) ELSE e2
         IN  e3

mountsWithTrustedCA(mounts) == Append(mounts, "trusted-ca")

\* the loop body of injectProxyAndCA
injectContainer(container, proxy) ==
    [container EXCEPT !.Env = envWithProxy(proxy, container.Env),
                      !.VolumeMounts = mountsWithTrustedCA(container.VolumeMounts)]

\* injectProxyAndCA when the loop misses the last container
injectProxyAndCA_MissesLast(containers, proxy) ==
    [i \in 1..Len(containers) |->
        IF i = Len(containers) THEN containers[i] ELSE injectContainer(containers[i], proxy)]

injectProxyAndCA(containers, proxy) ==
    [i \in 1..Len(containers) |-> injectContainer(containers[i], proxy)]

----------------------------------------------------------------------------
(* Rendering: the containers.  A container is its name, its environment    *)
(* (in order) and the names of its volume mounts (in order).                *)

Container(name, env, mounts) == [Name |-> name, Env |-> env, VolumeMounts |-> mounts]

createInitContainerIpaDownloader ==
    Container("metal3-ipa-downloader", <<>>, <<"imageVolume">>)

createInitContainerConfigureCoreOSIPA(i) ==
    Container("metal3-configure-coreos-ipa",
              envWithMasterMacAddresses(
                  << buildEnvVar("provisioningIP", i.Spec),
                     buildEnvVar("provisioningInterface", i.Spec),
                     buildSSHKeyEnvVar(i.SSHKey),
                     pullSecret >>, i.MasterMacAddresses),
              <<"metal3-shared", "imageVolume", "metal3-ironic-basic-auth", "metal3-ironic-tls">>)

ipOptionForMachineOsDownloader(i) ==
    CASE i.NetworkStack = "V4" -> "ip=dhcp"
      [] i.NetworkStack = "V6" -> "ip=dhcp6"
      [] OTHER -> ""

createInitContainerMachineOsDownloader(i, imageURLs, useLiveImages, setIpOptions) ==
    LET env == <<EnvVar("machineImageUrl", imageURLs)>>
    IN  Container("metal3-machine-os-downloader",
                  IF setIpOptions
                  THEN Append(env, EnvVar("ipOptions", ipOptionForMachineOsDownloader(i)))
                  ELSE env,
                  <<"imageVolume">>)

createInitContainerStaticIpSet(config) ==
    Container("metal3-static-ip-set",
              << buildEnvVar("provisioningIP", config),
                 buildEnvVar("provisioningInterface", config) >>,
              <<>>)

createContainerMetal3BaremetalOperator(config) ==
    Container("metal3-baremetal-operator",
              << getWatchNamespace(config),
                 EnvVar("POD_NAMESPACE", FieldRef("metadata.namespace")),
                 EnvVar("POD_NAME", FieldRef("metadata.name")),
                 EnvVar("OPERATOR_NAME", "baremetal-operator"),
                 EnvVar("IRONIC_CACERT_FILE", "/certs/ironic/tls.crt"),
                 EnvVar("IRONIC_INSECURE", "true"),
                 buildEnvVar("deployKernelUrl", config),
                 buildEnvVar("deployRamdiskUrl", config),
                 buildEnvVar("ironicEndpoint", config),
                 buildEnvVar("ironicInspectorEndpoint", config),
                 EnvVar("METAL3_AUTH_ROOT_DIR", "/auth") >>,
              <<"metal3-ironic-basic-auth", "metal3-inspector-basic-auth", "metal3-ironic-tls">>)

createContainerMetal3Dnsmasq(config, macs) ==
    Container("metal3-dnsmasq",
              envWithMasterMacAddresses(
                  << buildEnvVar("httpPort", config),
                     buildEnvVar("provisioningInterface", config),
                     buildEnvVar("dhcpRange", config) >>, macs),
              <<"metal3-shared", "imageVolume">>)

createContainerMetal3Mariadb ==
    Container("metal3-mariadb", <<mariadbPassword>>, <<"metal3-shared">>)

createContainerMetal3Httpd(config, macs, sshKey) ==
    Container("metal3-httpd",
              envWithMasterMacAddresses(
                  << buildEnvVar("httpPort", config),
                     buildEnvVar("provisioningIP", config),
                     buildEnvVar("provisioningInterface", config),
                     buildSSHKeyEnvVar(sshKey) >>, macs),
              <<"metal3-shared", "imageVolume", "metal3-ironic-tls", "metal3-inspector-tls">>)

createContainerMetal3IronicConductor(config, macs, sshKey) ==
    Container("metal3-ironic-conductor",
              envWithMasterMacAddresses(
                  << mariadbPassword,
                     EnvVar("IRONIC_INSECURE", "true"),
                     EnvVar("IRONIC_INSPECTOR_INSECURE", "true"),
                     buildEnvVar("httpPort", config),
                     buildEnvVar("provisioningIP", config),
                     buildEnvVar("provisioningInterface", config),
                     buildSSHKeyEnvVar(sshKey),
                     setIronicHtpasswdHash("HTTP_BASIC_HTPASSWD", "ironicrpcSecretName"),
                     setIronicExternalIp("IRONIC_EXTERNAL_IP", config) >>, macs),
              <<"metal3-shared", "imageVolume", "metal3-inspector-basic-auth",
                "metal3-ironic-rpc-basic-auth", "metal3-ironic-tls", "metal3-inspector-tls">>)

createContainerMetal3IronicApi(config, macs) ==
    Container("metal3-ironic-api",
              envWithMasterMacAddresses(
                  << mariadbPassword,
                     EnvVar("IRONIC_INSECURE", "true"),
                     buildEnvVar("httpPort", config),
                     buildEnvVar("provisioningIP", config),
                     buildEnvVar("provisioningInterface", config),
                     setIronicHtpasswdHash("HTTP_BASIC_HTPASSWD", "ironicSecretName"),
                     setIronicExternalIp("IRONIC_EXTERNAL_IP", config) >>, macs),
              <<"metal3-shared", "metal3-ironic-rpc-basic-auth", "metal3-ironic-tls">>)

createContainerIronicDeployRamdiskLogs ==
    Container("ironic-deploy-ramdisk-logs", <<>>, <<"metal3-shared">>)

createContainerMetal3IronicInspector(config, macs) ==
    Container("metal3-ironic-inspector",
              envWithMasterMacAddresses(
                  << EnvVar("IRONIC_INSECURE", "true"),
                     buildEnvVar("provisioningIP", config),
                     buildEnvVar("provisioningInterface", config),
                     setIronicHtpasswdHash("HTTP_BASIC_HTPASSWD", "inspectorSecretName") >>, macs),
              <<"metal3-shared", "metal3-ironic-basic-auth", "metal3-ironic-tls", "metal3-inspector-tls">>)

createContainerIronicInspectorRamdiskLogs ==
    Container("ironic-inspector-ramdisk-logs", <<>>, <<"metal3-shared">>)

createContainerMetal3StaticIpManager(config, macs) ==
    Container("metal3-static-ip-manager",
              envWithMasterMacAddresses(
                  << buildEnvVar("provisioningIP", config),
                     buildEnvVar("provisioningInterface", config) >>, macs),
              <<>>)

----------------------------------------------------------------------------
(* Rendering: the container lists, the pod template and the deployment *)

\* the elements of seq that are not "", in order
RECURSIVE NonEmpty(_)
NonEmpty(seq) ==
    IF seq = <<>> THEN <<>>
    ELSE IF Head(seq) = "" THEN NonEmpty(Tail(seq))
    ELSE <<Head(seq)>> \o NonEmpty(Tail(seq))

\* the live-OS download URLs that are set
getPreProvisioningOSDownloadURLs(config) ==
    NonEmpty(<< config.PreProvisioningOSDownloadURLs.IsoURL,
                config.PreProvisioningOSDownloadURLs.KernelURL,
                config.PreProvisioningOSDownloadURLs.RootfsURL,
                config.PreProvisioningOSDownloadURLs.InitramfsURL >>)

\* whether the CoreOS image ships the IPA assets: a boolean derived from the config
isCoreOSIPAAvailable(config) == config.CoreOSIPAAvailable

\* newMetal3InitContainers when the configurator is added for any live URL
newMetal3InitContainers_NoIsoCheck(i) ==
    LET c0 == <<>>
        c1 == IF i.Spec.ProvisioningIP # "" /\ i.Spec.ProvisioningNetwork # "Disabled"
              THEN Append(c0, createInitContainerStaticIpSet(i.Spec)) ELSE c0
        liveURLs == getPreProvisioningOSDownloadURLs(i.Spec)
        c2 == IF Len(liveURLs) > 0
              THEN c1 \o << createInitContainerMachineOsDownloader(
                                i, Join(liveURLs, ","), TRUE, TRUE),
                            createInitContainerConfigureCoreOSIPA(i) >>
              ELSE c1
        c3 == IF i.Spec.ProvisioningOSDownloadURL # ""
              THEN Append(c2, createInitContainerMachineOsDownloader(
                                  i, i.Spec.ProvisioningOSDownloadURL, FALSE, TRUE))
              ELSE c2
        c4 == IF ~isCoreOSIPAAvailable(i.Spec)
              THEN Append(c3, createInitContainerIpaDownloader) ELSE c3
    IN  injectProxyAndCA(c4, i.Proxy)

newMetal3InitContainers(i) ==
    LET c0 == <<>>
        c1 == IF i.Spec.ProvisioningIP # "" /\ i.Spec.ProvisioningNetwork # "Disabled"
              THEN Append(c0, createInitContainerStaticIpSet(i.Spec)) ELSE c0
        liveURLs == getPreProvisioningOSDownloadURLs(i.Spec)
        c2 == IF Len(liveURLs) > 0
              THEN LET d == Append(c1, createInitContainerMachineOsDownloader(
                                           i, Join(liveURLs, ","), TRUE, TRUE))
                   IN  IF i.Spec.PreProvisioningOSDownloadURLs.IsoURL # ""
                       THEN Append(d, createInitContainerConfigureCoreOSIPA(i))
                       ELSE d
              ELSE c1
        c3 == IF i.Spec.ProvisioningOSDownloadURL # ""
              THEN Append(c2, createInitContainerMachineOsDownloader(
                                  i, i.Spec.ProvisioningOSDownloadURL, FALSE, TRUE))
              ELSE c2
        c4 == IF ~isCoreOSIPAAvailable(i.Spec)
              THEN Append(c3, createInitContainerIpaDownloader) ELSE c3
    IN  injectProxyAndCA(c4, i.Proxy)

\* newMetal3Containers when dnsmasq is added under the condition of the
\* static-ip-manager
newMetal3Containers_DnsmasqWithStaticIp(i) ==
    LET c0 == << createContainerMetal3BaremetalOperator(i.Spec),
                 createContainerMetal3Mariadb,
                 createContainerMetal3Httpd(i.Spec, i.MasterMacAddresses, i.SSHKey),
                 createContainerMetal3IronicConductor(i.Spec, i.MasterMacAddresses, i.SSHKey),
                 createContainerIronicInspectorRamdiskLogs,
                 createContainerMetal3IronicApi(i.Spec, i.MasterMacAddresses),
                 createContainerIronicDeployRamdiskLogs,
                 createContainerMetal3IronicInspector(i.Spec, i.MasterMacAddresses) >>
        c1 == IF i.Spec.ProvisioningIP # "" /\ i.Spec.ProvisioningNetwork # "Disabled"
              THEN c0 \o << createContainerMetal3StaticIpManager(i.Spec, i.MasterMacAddresses),
                            createContainerMetal3Dnsmasq(i.Spec, i.MasterMacAddresses) >>
              ELSE c0
    IN  injectProxyAndCA(c1, i.Proxy)

newMetal3Containers(i) ==
    LET c0 == << createContainerMetal3BaremetalOperator(i.Spec),
                 createContainerMetal3Mariadb,
                 createContainerMetal3Httpd(i.Spec, i.MasterMacAddresses, i.SSHKey),
                 createContainerMetal3IronicConductor(i.Spec, i.MasterMacAddresses, i.SSHKey),
                 createContainerIronicInspectorRamdiskLogs,
                 createContainerMetal3IronicApi(i.Spec, i.MasterMacAddresses),
                 createContainerIronicDeployRamdiskLogs,
                 createContainerMetal3IronicInspector(i.Spec, i.MasterMacAddresses) >>
        c1 == IF i.Spec.ProvisioningIP # "" /\ i.Spec.ProvisioningNetwork # "Disabled"
              THEN Append(c0, createContainerMetal3StaticIpManager(i.Spec, i.MasterMacAddresses))
              ELSE c0
        c2 == IF i.Spec.ProvisioningNetwork # "Disabled"
              THEN Append(c1, createContainerMetal3Dnsmasq(i.Spec, i.MasterMacAddresses))
              ELSE c1
    IN  injectProxyAndCA(c2, i.Proxy)

newMetal3PodTemplateSpec(i, labels) ==
    [ Labels |-> labels,
      InitContainers |-> newMetal3InitContainers(i),
      Containers |-> newMetal3Containers(i) ]

\* the selector newMetal3Deployment builds
selector == [ptr |-> "rendered", MatchLabels |-> NewLabels]

newMetal3Deployment(i) ==
    [ Selector |-> selector,
      Template |-> newMetal3PodTemplateSpec(i, NewLabels) ]

\* newMetal3Deployment is a pure function of the snapshot: its values, tabulated
\* over a set of snapshots
Rendering(infos) == [i \in infos |-> newMetal3Deployment(i)]

\* nothing rendered yet
NoRender == [done |-> FALSE]

\* no second injection applied yet
NoTemplate == [done |-> FALSE]

----------------------------------------------------------------------------
(* The inputs of a reconcile *)

Networks == {"Disabled", "Managed", "Unmanaged"}

LiveURLs ==
    { [IsoURL |-> "", KernelURL |-> "", RootfsURL |-> "", InitramfsURL |-> ""],
      [IsoURL |-> "iso", KernelURL |-> "", RootfsURL |-> "", InitramfsURL |-> ""],
      [IsoURL |-> "", KernelURL |-> "kernel", RootfsURL |-> "rootfs", InitramfsURL |-> "initramfs"],
      [IsoURL |-> "iso", KernelURL |-> "kernel", RootfsURL |-> "rootfs", InitramfsURL |-> "initramfs"] }

Specs ==
    [ ProvisioningNetwork : Networks,
      ProvisioningIP : {"", "172.22.0.3"},
      PreProvisioningOSDownloadURLs : LiveURLs,
      ProvisioningOSDownloadURL : {"", "rhcos.qcow2"},
      CoreOSIPAAvailable : BOOLEAN,
      VirtualMediaViaExternalNetwork : BOOLEAN,
      WatchAllNamespaces : BOOLEAN ]

NilProxy == [isNil |-> TRUE, HTTPProxy |-> "", HTTPSProxy |-> "", NoProxy |-> ""]

Proxies ==
    {NilProxy} \cup [ isNil : {FALSE},
                     HTTPProxy : {"", "http://proxy"},
                     HTTPSProxy : {"", "https://proxy"},
                     NoProxy : {"", ".cluster.local"} ]

Infos ==
    [ Spec : Specs,
      MasterMacAddresses : {<<>>, <<"aa:aa", "bb:bb">>},
      SSHKey : {"ssh-rsa key"},
      NetworkStack : {"V4", "V6", "Dual"},
      Proxy : Proxies ]

\* the snapshot the reconciler runs with
DefaultInfo ==
    [ Spec |-> [ ProvisioningNetwork |-> "Managed",
                 ProvisioningIP |-> "172.22.0.3",
                 PreProvisioningOSDownloadURLs |->
                     [IsoURL |-> "iso", KernelURL |-> "", RootfsURL |-> "", InitramfsURL |-> ""],
                 ProvisioningOSDownloadURL |-> "",
                 CoreOSIPAAvailable |-> FALSE,
                 VirtualMediaViaExternalNetwork |-> FALSE,
                 WatchAllNamespaces |-> FALSE ],
      MasterMacAddresses |-> <<"aa:aa", "bb:bb">>,
      SSHKey |-> "ssh-rsa key",
      NetworkStack |-> "V4",
      Proxy |-> [isNil |-> FALSE, HTTPProxy |-> "http://proxy", HTTPSProxy |-> "",
                 NoProxy |-> ".cluster.local"] ]

\* the snapshots the reconciler is run with, and what newMetal3Deployment renders for them
ReconcileInfos == {DefaultInfo}

metal3DeploymentOf == Rendering(ReconcileInfos)

----------------------------------------------------------------------------
(* The reconciler *)

\* getMetal3DeploymentSelector: the selector of the existing deployment
getMetal3DeploymentSelector(get) ==
    IF get.obj.exists /\ get.err = NilErr
    THEN [selector |-> [ptr |-> "fetched", MatchLabels |-> get.obj.Selector], err |-> NilErr]
    ELSE [selector |-> NilSelector, err |-> get.err]

\* returnsApplyError with the selectors compared by identity
returnsApplyError_Identity(sel, metal3Deployment) ==
    sel.err # NilErr \/ sel.selector = metal3Deployment.Selector

\* returnsApplyError when the delete is gone on to whatever was fetched
returnsApplyError_Never(sel, metal3Deployment) == FALSE

\* returnsApplyError when the conflict is never looked for
returnsApplyError_Always(sel, metal3Deployment) == TRUE

\* baremetal_pod.go:1028: the apply error is returned as it is, and nothing is
\* deleted, when the selector cannot be fetched or is the rendered one
returnsApplyError(sel, metal3Deployment) ==
    sel.err # NilErr \/ SemanticDeepEqual(sel.selector, metal3Deployment.Selector)

\* afterDelete when a failed delete leaves the apply error in place
afterDelete_KeepsApplyError(updated, err, delete_err) ==
    IF delete_err # NilErr
    THEN [updated |-> updated, persist |-> FALSE, err |-> err]
    ELSE [updated |-> updated, persist |-> updated, err |-> NilErr]

\* baremetal_pod.go:1035-1043: the results once DeleteMetal3Deployment has
\* answered delete_err: a failed delete returns its error; after a delete that
\* succeeded the function runs on to its last lines
afterDelete(updated, err, delete_err) ==
    IF delete_err # NilErr
    THEN [ updated |-> updated, persist |-> FALSE,
           err |-> Errorf("unable to delete Metal3 deployment with incorrect Pod Selector",
                          delete_err) ]
    ELSE [ updated |-> updated, persist |-> updated, err |-> NilErr ]

\* What one EnsureMetal3Deployment does and returns, given the rendered
\* deployment and what SetControllerReference, ApplyDeployment, Get and Delete
\* answer when they are called: the calls made on the orchestrator (in order),
\* the results (updated, err) and whether the generation is recorded.
EnsureMetal3DeploymentReturn(metal3Deployment, refErr, apply, get, delete) ==
    IF refErr # NilErr
    THEN [ calls |-> <<>>, updated |-> FALSE, persist |-> FALSE,
           err |-> Errorf("unable to set controllerReference on deployment", refErr) ]
    ELSE IF apply.err # NilErr
    THEN LET err == Errorf("unable to apply Metal3 deployment", apply.err)
             sel == getMetal3DeploymentSelector(get)
         IN  IF returnsApplyError(sel, metal3Deployment)
             THEN [ calls |-> <<"apply", "get">>, updated |-> apply.updated,
                    persist |-> FALSE, err |-> err ]
             ELSE LET r == afterDelete(apply.updated, err, IgnoreNotFound(delete.err))
                  IN  [ calls |-> <<"apply", "get", "delete">>, updated |-> r.updated,
                        persist |-> r.persist, err |-> r.err ]
    ELSE [ calls |-> <<"apply">>, updated |-> apply.updated,
           persist |-> apply.updated, err |-> NilErr ]

Issued(calls, c) == \E k \in 1..Len(calls) : calls[k] = c

NoCall ==
    [ op |-> "none", calls |-> <<>>, updated |-> FALSE, err |-> NilErr, state |-> "",
      applyErr |-> NilErr, getErr |-> NilErr, selector |-> NilSelector, deleteErr |-> NilErr ]

\* EnsureStep when the timestamp is taken only for an apply that succeeded
EnsureStep_StampsOnSuccess(metal3Deployment, refErr, apply, get, delete) ==
    LET r == EnsureMetal3DeploymentReturn(metal3Deployment, refErr, apply, get, delete)
        applied == Issued(r.calls, "apply")
        fetched == Issued(r.calls, "get")
        deleted == Issued(r.calls, "delete")
    IN  /\ deploymentRolloutStartTime' = IF applied /\ apply.err = NilErr THEN now
                                      ELSE deploymentRolloutStartTime
        /\ deployment' = IF deleted /\ delete.err = NilErr THEN NoDeployment
                         ELSE IF applied THEN apply.obj
                         ELSE deployment
        /\ generations' = IF r.persist THEN apply.obj.Generation ELSE generations
        /\ last' = [ op |-> "EnsureMetal3Deployment", calls |-> r.calls,
                     updated |-> r.updated, err |-> r.err, state |-> "",
                     applyErr |-> IF applied THEN apply.err ELSE NilErr,
                     getErr |-> IF fetched THEN get.err ELSE NilErr,
                     selector |-> IF fetched THEN getMetal3DeploymentSelector(get).selector
                                  ELSE NilSelector,
                     deleteErr |-> IF deleted THEN delete.err ELSE NilErr ]
        /\ UNCHANGED <<now, rendered, reinjected>>

EnsureStep(metal3Deployment, refErr, apply, get, delete) ==
    LET r == EnsureMetal3DeploymentReturn(metal3Deployment, refErr, apply, get, delete)
        applied == Issued(r.calls, "apply")
        fetched == Issued(r.calls, "get")
        deleted == Issued(r.calls, "delete")
    IN  /\ deploymentRolloutStartTime' = IF applied THEN now ELSE deploymentRolloutStartTime
        /\ deployment' = IF deleted /\ delete.err = NilErr THEN NoDeployment
                         ELSE IF applied THEN apply.obj
                         ELSE deployment
        /\ generations' = IF r.persist THEN apply.obj.Generation ELSE generations
        /\ last' = [ op |-> "EnsureMetal3Deployment", calls |-> r.calls,
                     updated |-> r.updated, err |-> r.err, state |-> "",
                     applyErr |-> IF applied THEN apply.err ELSE NilErr,
                     getErr |-> IF fetched THEN get.err ELSE NilErr,
                     selector |-> IF fetched THEN getMetal3DeploymentSelector(get).selector
                                  ELSE NilSelector,
                     deleteErr |-> IF deleted THEN delete.err ELSE NilErr ]
        /\ UNCHANGED <<now, rendered, reinjected>>

EnsureMetal3Deployment ==
    \E info \in ReconcileInfos :
    LET metal3Deployment == metal3DeploymentOf[info]
    IN  \E refErr \in {NilErr, ErrOwner} :
        \E apply \in ApplyOutcomes(deployment, generations, metal3Deployment) :
        \E get \in GetOutcomes(apply.obj) :
        \E delete \in DeleteOutcomes(apply.obj) :
            EnsureStep(metal3Deployment, refErr, apply, get, delete)

\* getDeploymentCondition when the loop does not stop at the first match
getDeploymentCondition_LastTrue(d) ==
    LET true == {k \in 1..Len(d.Conditions) : d.Conditions[k].Status = "True"}
    IN  IF true = {} THEN "Progressing"
        ELSE d.Conditions[CHOOSE k \in true : \A j \in true : k >= j].Type

getDeploymentCondition(d) ==
    LET true == {k \in 1..Len(d.Conditions) : d.Conditions[k].Status = "True"}
    IN  IF true = {} THEN "Progressing"
        ELSE d.Conditions[CHOOSE k \in true : \A j \in true : k <= j].Type

\* time.Since(deploymentRolloutStartTime)
SinceRolloutStart == now - deploymentRolloutStartTime

\* GetDeploymentStateReturn without the rollout timeout
GetDeploymentStateReturn_NoTimeout(get, since) ==
    IF get.err # NilErr \/ ~get.obj.exists
    THEN [state |-> "ReplicaFailure", err |-> get.err]
    ELSE [state |-> getDeploymentCondition(get.obj), err |-> NilErr]

\* GetDeploymentStateReturn when the error of Get is wrapped
GetDeploymentStateReturn_Wraps(get, since) ==
    IF get.err # NilErr \/ ~get.obj.exists
    THEN [state |-> "ReplicaFailure", err |-> Errorf("unable to get Metal3 deployment", get.err)]
    ELSE LET deploymentState == getDeploymentCondition(get.obj)
         IN  IF deploymentState = "Progressing" /\ deploymentRolloutTimeout <= since
             THEN [state |-> "ReplicaFailure", err |-> NilErr]
             ELSE [state |-> deploymentState, err |-> NilErr]

\* What GetDeploymentState returns, given the answer of Get and the time since
\* the rollout started
GetDeploymentStateReturn(get, since) ==
    IF get.err # NilErr \/ ~get.obj.exists
    THEN [state |-> "ReplicaFailure", err |-> get.err]
    ELSE LET deploymentState == getDeploymentCondition(get.obj)
         IN  IF deploymentState = "Progressing" /\ deploymentRolloutTimeout <= since
             THEN [state |-> "ReplicaFailure", err |-> NilErr]
             ELSE [state |-> deploymentState, err |-> NilErr]

GetDeploymentState ==
    \E get \in GetOutcomes(deployment) :
        LET r == GetDeploymentStateReturn(get, SinceRolloutStart)
        IN  /\ last' = [NoCall EXCEPT !.op = "GetDeploymentState", !.calls = <<"get">>,
                                      !.state = r.state, !.err = r.err, !.getErr = get.err]
            /\ UNCHANGED <<now, deploymentRolloutStartTime, deployment, generations,
                           rendered, reinjected>>

\* DeleteMetal3DeploymentReturn without client.IgnoreNotFound
DeleteMetal3DeploymentReturn_Raw(delete) == delete.err

\* What DeleteMetal3Deployment returns, given the answer of Delete
DeleteMetal3DeploymentReturn(delete) == IgnoreNotFound(delete.err)

DeleteMetal3Deployment ==
    \E delete \in DeleteOutcomes(deployment) :
        /\ deployment' = IF delete.err = NilErr THEN NoDeployment ELSE deployment
        /\ last' = [NoCall EXCEPT !.op = "DeleteMetal3Deployment", !.calls = <<"delete">>,
                                  !.err = DeleteMetal3DeploymentReturn(delete),
                                  !.deleteErr = delete.err]
        /\ UNCHANGED <<now, deploymentRolloutStartTime, generations, rendered, reinjected>>

----------------------------------------------------------------------------
(* The environment *)

\* a minute passes
Tick ==
    /\ IF now < MaxTime
       THEN /\ now' = now + 1
            /\ UNCHANGED deploymentRolloutStartTime
       ELSE /\ UNCHANGED now
            /\ deploymentRolloutStartTime' = Max(deploymentRolloutStartTime - 1, 0)
    /\ UNCHANGED <<deployment, generations, rendered, reinjected, last>>

\* the deployment controller of the orchestrator rewrites the conditions
RolloutProgress ==
    /\ deployment.exists
    /\ \E conds \in RolloutConds \ {deployment.Conditions} :
           deployment' = [deployment EXCEPT !.Conditions = conds]
    /\ UNCHANGED <<now, deploymentRolloutStartTime, generations, rendered, reinjected, last>>

----------------------------------------------------------------------------
(* Spec: the reconciler against the orchestrator *)

Init ==
    /\ now = 0
    /\ deploymentRolloutStartTime = 0
    /\ \/ deployment = NoDeployment /\ generations = 0
       \/ deployment = Live(OldLabels, <<>>, 1) /\ generations \in {0, 1}
       \/ deployment = Live(NewLabels, <<>>, 1) /\ generations \in {0, 1}
    /\ rendered = NoRender
    /\ reinjected = NoTemplate
    /\ last = NoCall

Next ==
    \/ EnsureMetal3Deployment
    \/ GetDeploymentState
    \/ DeleteMetal3Deployment
    \/ Tick
    \/ RolloutProgress

Spec == Init /\ [][Next]_vars

----------------------------------------------------------------------------
(* LiveSpec: Spec with the scheduling the reconciler runs under.  Time      *)
(* passes, the operator loop keeps asking for the state of the deployment,  *)
(* and it keeps reconciling; the orchestrator does not fail for ever, so a  *)
(* reconcile whose calls meet no transient failure keeps happening.         *)

EnsureHealthy ==
    \E info \in ReconcileInfos :
    LET metal3Deployment == metal3DeploymentOf[info]
    IN  \E apply \in ApplyOutcomes(deployment, generations, metal3Deployment) :
        \E get \in GetOutcomes(apply.obj) :
        \E delete \in DeleteOutcomes(apply.obj) :
            /\ apply.err # ErrTransient
            /\ get.err # ErrTransient
            /\ delete.err # ErrTransient
            /\ EnsureStep(metal3Deployment, NilErr, apply, get, delete)

LiveSpec ==
    /\ Spec
    /\ WF_vars(Tick)
    /\ WF_vars(GetDeploymentState)
    /\ WF_vars(EnsureHealthy)

----------------------------------------------------------------------------
(* StatusSpec: the status query on every list of conditions, at every time  *)
(* since the rollout started                                                *)

StatusInit ==
    /\ now = 0
    /\ deploymentRolloutStartTime = 0
    /\ deployment \in {NoDeployment} \cup {Live(NewLabels, conds, 1) : conds \in CondLists}
    /\ generations = 0
    /\ rendered = NoRender
    /\ reinjected = NoTemplate
    /\ last = NoCall

StatusNext ==
    \/ GetDeploymentState
    \/ Tick

StatusSpec == StatusInit /\ [][StatusNext]_vars

----------------------------------------------------------------------------
(* RenderSpec: the rendering of the deployment for every configuration *)

\* newMetal3Deployment(info), as EnsureMetal3Deployment calls it
Render ==
    /\ ~rendered.done
    /\ \E info \in Infos :
           LET metal3Deployment == newMetal3Deployment(info)
           IN  rendered' = [ done |-> TRUE, info |-> info,
                             Selector |-> metal3Deployment.Selector,
                             Template |-> metal3Deployment.Template ]
    /\ UNCHANGED <<now, deploymentRolloutStartTime, deployment, generations, reinjected, last>>

\* injectProxyAndCA once more, on the lists of the rendered template
Reinject ==
    /\ rendered.done
    /\ ~reinjected.done
    /\ reinjected' =
           [ done |-> TRUE,
             InitContainers |->
                 injectProxyAndCA(rendered.Template.InitContainers, rendered.info.Proxy),
             Containers |->
                 injectProxyAndCA(rendered.Template.Containers, rendered.info.Proxy) ]
    /\ UNCHANGED <<now, deploymentRolloutStartTime, deployment, generations, rendered, last>>

RenderInit ==
    /\ now = 0
    /\ deploymentRolloutStartTime = 0
    /\ deployment = NoDeployment
    /\ generations = 0
    /\ rendered = NoRender
    /\ reinjected = NoTemplate
    /\ last = NoCall

RenderNext ==
    \/ Render
    \/ Reinject

RenderSpec == RenderInit /\ [][RenderNext]_vars

----------------------------------------------------------------------------
(* The claims *)

\* the orchestrator calls of kind c among calls
NumCalls(calls, c) == Cardinality({k \in 1..Len(calls) : calls[k] = c})

ApplyErrorWrapped(e) == Errorf("unable to apply Metal3 deployment", e)

DeleteErrorWrapped(e) ==
    Errorf("unable to delete Metal3 deployment with incorrect Pod Selector", e)

LastIsEnsure == last.op = "EnsureMetal3Deployment"

\* the last reconcile met a failed apply and fetched a selector that is not the rendered one
LastMetSelectorConflict ==
    /\ LastIsEnsure
    /\ last.applyErr # NilErr
    /\ Issued(last.calls, "get")
    /\ last.getErr = NilErr
    /\ ~SemanticDeepEqual(last.selector, selector)

\* C1: when the apply fails and the fetched selector differs from the rendered
\* one, EnsureMetal3Deployment issues exactly one delete and returns a non-nil
\* error, which is the wrapped apply error when the delete succeeds.
C1_ConflictReturnsApplyError ==
    LastMetSelectorConflict =>
        /\ NumCalls(last.calls, "delete") = 1
        /\ last.err # NilErr
        /\ (IgnoreNotFound(last.deleteErr) = NilErr => last.err = ApplyErrorWrapped(last.applyErr))

\* C2: when the apply fails and the selector cannot be fetched, or is equal by
\* value to the rendered one, EnsureMetal3Deployment issues no delete, leaves
\* the deployment as it is and returns the wrapped apply error.
C2_NoConflictNoDelete ==
    [][ ( /\ EnsureMetal3Deployment
          /\ last'.applyErr # NilErr
          /\ \/ last'.getErr # NilErr
             \/ SemanticDeepEqual(last'.selector, selector) )
        => /\ last'.calls = <<"apply", "get">>
           /\ deployment' = deployment
           /\ last'.err = ApplyErrorWrapped(last'.applyErr) ]_vars

\* C2 witness: an apply failed on a deployment whose selector is the rendered
\* one, fetched as another object
C2_Witness ==
    /\ LastIsEnsure
    /\ last.applyErr # NilErr
    /\ last.getErr = NilErr
    /\ last.selector.ptr = "fetched"
    /\ last.selector.MatchLabels = selector.MatchLabels
    /\ last.err = ApplyErrorWrapped(last.applyErr)
    /\ deployment.exists

\* C3: when the apply fails, the selector differs and the delete fails with an
\* error other than not-found, EnsureMetal3Deployment returns the wrapped delete
\* error in place of the apply error and does not record the generation.
C3_DeleteFailureReplacesApplyError ==
    [][ ( /\ EnsureMetal3Deployment
          /\ Issued(last'.calls, "delete")
          /\ IgnoreNotFound(last'.deleteErr) # NilErr )
        => /\ last'.err = DeleteErrorWrapped(last'.deleteErr)
           /\ last'.err # ApplyErrorWrapped(last'.applyErr)
           /\ generations' = generations ]_vars

\* C3 witness: a reconcile whose delete of the old-selector deployment failed
C3_Witness ==
    /\ LastMetSelectorConflict
    /\ last.deleteErr = ErrTransient
    /\ last.err = DeleteErrorWrapped(ErrTransient)
    /\ deployment.exists

\* C7: when its Get fails (not-found included), GetDeploymentState returns
\* ReplicaFailure with the error of Get itself, whatever the time since the
\* rollout started, and changes nothing on the orchestrator.
C7_GetFailureIsReplicaFailure ==
    [][ (GetDeploymentState /\ last'.getErr # NilErr)
        => /\ last'.state = "ReplicaFailure"
           /\ last'.err = last'.getErr
           /\ last'.calls = <<"get">>
           /\ UNCHANGED <<deployment, generations, deploymentRolloutStartTime>> ]_vars

\* C7 witness: the deployment was not found, before the rollout timeout
C7_Witness ==
    /\ last.op = "GetDeploymentState"
    /\ last.getErr = ErrNotFound
    /\ last.err = ErrNotFound
    /\ last.state = "ReplicaFailure"
    /\ SinceRolloutStart < deploymentRolloutTimeout

\* the Get of the last GetDeploymentState succeeded
LastStateWasRead == last.op = "GetDeploymentState" /\ last.getErr = NilErr

\* no condition before position k of conds is true, and the one at k is
FirstTrueAt(conds, k) ==
    /\ k \in 1..Len(conds)
    /\ conds[k].Status = "True"
    /\ \A j \in 1..(k - 1) : conds[j].Status # "True"

NoneTrue(conds) == \A k \in 1..Len(conds) : conds[k].Status # "True"

\* the condition of the deployment counts as Progressing
CountsAsProgressing(conds) ==
    \/ NoneTrue(conds)
    \/ \E k \in 1..Len(conds) : FirstTrueAt(conds, k) /\ conds[k].Type = "Progressing"

\* C4: on a deployment whose condition is Progressing, GetDeploymentState
\* reports ReplicaFailure with a nil error when more than 5 minutes have passed
\* since the rollout started, and Progressing when less than 5 minutes have.
C4_ProgressingTimesOut ==
    [][ ( /\ GetDeploymentState
          /\ last'.getErr = NilErr
          /\ CountsAsProgressing(deployment.Conditions) )
        => /\ SinceRolloutStart > deploymentRolloutTimeout
                => last'.state = "ReplicaFailure" /\ last'.err = NilErr
           /\ SinceRolloutStart < deploymentRolloutTimeout
                => last'.state = "Progressing" /\ last'.err = NilErr ]_vars

\* C4 witness: a deployment with no true condition, asked about six minutes
\* after the rollout started
C4_Witness ==
    /\ LastStateWasRead
    /\ deployment.exists
    /\ CountsAsProgressing(deployment.Conditions)
    /\ SinceRolloutStart > deploymentRolloutTimeout
    /\ last.state = "ReplicaFailure"

\* C6: GetDeploymentState reports the type of the first condition, in the order
\* of the list, whose status is true, whatever the time since the rollout
\* started, unless that type is Progressing; with a first true condition of
\* type Progressing, or no true condition, it reports Progressing or (timed
\* out) ReplicaFailure.
C6_FirstTrueCondition ==
    [][ (GetDeploymentState /\ last'.getErr = NilErr)
        => LET conds == deployment.Conditions
           IN  /\ last'.err = NilErr
               /\ \A k \in 1..Len(conds) :
                      (FirstTrueAt(conds, k) /\ conds[k].Type # "Progressing")
                          => last'.state = conds[k].Type
               /\ CountsAsProgressing(conds)
                      => last'.state \in {"Progressing", "ReplicaFailure"}
               /\ (CountsAsProgressing(conds) /\ last'.state = "ReplicaFailure")
                      => deploymentRolloutTimeout <= SinceRolloutStart ]_vars

\* C6 witness: Available reported after the timeout, from a list of two true
\* conditions of which Available is the first
C6_Witness ==
    /\ LastStateWasRead
    /\ deployment.exists
    /\ Len(deployment.Conditions) = 2
    /\ deployment.Conditions[1] = Cond("Available", "True")
    /\ deployment.Conditions[2] = Cond("ReplicaFailure", "True")
    /\ SinceRolloutStart > deploymentRolloutTimeout
    /\ last.state = "Available"

\* the rollout is stuck: the deployment is there and its condition is Progressing
StuckRollout == deployment.exists /\ CountsAsProgressing(deployment.Conditions)

ReportedReplicaFailure == last.op = "GetDeploymentState" /\ last.state = "ReplicaFailure"

\* C5: when the rollout stays stuck for ever while EnsureMetal3Deployment and
\* GetDeploymentState keep being called, at any period, some GetDeploymentState
\* reports ReplicaFailure.
C5_StuckRolloutReported ==
    ( /\ []StuckRollout
      /\ []<><<EnsureMetal3Deployment>>_vars
      /\ []<><<GetDeploymentState>>_vars )
    => <>ReportedReplicaFailure

\* a deployment with the selector of an older release is live
OldSelectorLive == deployment.exists /\ deployment.Selector # selector.MatchLabels

\* a deployment with the rendered selector is live
NewSelectorLive == deployment.exists /\ deployment.Selector = selector.MatchLabels

\* C8: a live deployment whose selector is not the rendered one is removed by
\* the reconcile that meets it (its delete succeeding) and a deployment with
\* the rendered selector is created by the next one: a deployment with the
\* rendered selector eventually exists.
C8_SelfHealing ==
    /\ [][ (EnsureHealthy /\ OldSelectorLive) => ~deployment'.exists ]_vars
    /\ [][ (EnsureHealthy /\ ~deployment.exists) => NewSelectorLive' ]_vars
    /\ OldSelectorLive ~> NewSelectorLive

\* C8 witness: the reconcile that met the old selector has deleted the deployment
C8_Witness ==
    /\ LastMetSelectorConflict
    /\ last.deleteErr = NilErr
    /\ ~deployment.exists

ProxyNames == {"HTTP_PROXY", "HTTPS_PROXY", "NO_PROXY"}

\* the value the proxy descriptor gives to the proxy variable name ("": none)
ProxyValue(proxy, name) ==
    IF proxy.isNil THEN ""
    ELSE CASE name = "HTTP_PROXY" -> proxy.HTTPProxy
           [] name = "HTTPS_PROXY" -> proxy.HTTPSProxy
           [] name = "NO_PROXY" -> proxy.NoProxy

\* how many variables of the container are called name
NumEnv(container, name) ==
    Cardinality({k \in 1..Len(container.Env) : container.Env[k].Name = name})

\* how many mounts of the container are of the volume
NumMounts(container, volume) ==
    Cardinality({k \in 1..Len(container.VolumeMounts) : container.VolumeMounts[k] = volume})

\* every container of the list has each proxy variable that is set n times,
\* with the value of the descriptor, the others not at all, and n trusted-ca mounts
InjectedTimes(containers, proxy, n) ==
    \A c \in 1..Len(containers) :
        /\ \A name \in ProxyNames :
               /\ NumEnv(containers[c], name) = (IF ProxyValue(proxy, name) = "" THEN 0 ELSE n)
               /\ \A k \in 1..Len(containers[c].Env) :
                      containers[c].Env[k].Name = name
                          => containers[c].Env[k].Value = ProxyValue(proxy, name)
        /\ NumMounts(containers[c], "trusted-ca") = n

\* injectProxyAndCA has been applied again to the lists of the rendered template
Reinjected == rendered.done /\ reinjected.done

\* C9 (as claimed): injectProxyAndCA applied to an injected list gives that list
\* again, no proxy variable appearing twice in a container.
C9_InjectionIdempotent ==
    Reinjected =>
        /\ reinjected.InitContainers = rendered.Template.InitContainers
        /\ reinjected.Containers = rendered.Template.Containers

\* C9 (amended): injectProxyAndCA applied to an injected list appends to every
\* container once more: each container then has two trusted-ca mounts and two
\* of each proxy variable that is set; the list is the injected list again only
\* when it is empty.
C9_InjectionAppendsAgain ==
    Reinjected =>
        /\ InjectedTimes(reinjected.InitContainers, rendered.info.Proxy, 2)
        /\ InjectedTimes(reinjected.Containers, rendered.info.Proxy, 2)
        /\ (reinjected.InitContainers = rendered.Template.InitContainers)
               <=> (rendered.Template.InitContainers = <<>>)
        /\ reinjected.Containers # rendered.Template.Containers

\* C9 witness: a second injection, with a proxy of which two variables are set,
\* on init containers and containers
C9_Witness ==
    /\ Reinjected
    /\ ~rendered.info.Proxy.isNil
    /\ rendered.info.Proxy.HTTPProxy # ""
    /\ rendered.info.Proxy.HTTPSProxy = ""
    /\ rendered.info.Proxy.NoProxy # ""
    /\ Len(reinjected.InitContainers) >= 2

\* C10: in the rendered pod template every init container and every container
\* has the same proxy variables (none without a proxy; else those of
\* HTTP_PROXY, HTTPS_PROXY, NO_PROXY that are not empty, each once) and one
\* trusted-ca mount.
C10_UniformInjection ==
    rendered.done =>
        /\ InjectedTimes(rendered.Template.InitContainers, rendered.info.Proxy, 1)
        /\ InjectedTimes(rendered.Template.Containers, rendered.info.Proxy, 1)

\* C10 witness: a template with four init containers and ten containers,
\* rendered with a proxy of which only the HTTPS variable is set
C10_Witness ==
    /\ rendered.done
    /\ ~rendered.info.Proxy.isNil
    /\ rendered.info.Proxy.HTTPProxy = ""
    /\ rendered.info.Proxy.HTTPSProxy # ""
    /\ rendered.info.Proxy.NoProxy = ""
    /\ Len(rendered.Template.InitContainers) = 4
    /\ Len(rendered.Template.Containers) = 10

\* the containers whose builder ends in envWithMasterMacAddresses
MacContainers ==
    { "metal3-httpd", "metal3-ironic-conductor", "metal3-ironic-api",
      "metal3-ironic-inspector", "metal3-static-ip-manager", "metal3-dnsmasq",
      "metal3-configure-coreos-ipa" }

\* how many proxy variables the descriptor sets
NumProxyVars(proxy) == Cardinality({name \in ProxyNames : ProxyValue(proxy, name) # ""})

\* C11 (as claimed): every container of the rendered container list has
\* PROVISIONING_MACS, the comma-joined master MAC addresses, as the last entry
\* of its environment.
C11_MacsFinalEverywhere ==
    rendered.done =>
        \A c \in 1..Len(rendered.Template.Containers) :
            LET env == rendered.Template.Containers[c].Env
            IN  /\ env # <<>>
                /\ env[Len(env)] =
                       EnvVar("PROVISIONING_MACS", Join(rendered.info.MasterMacAddresses, ","))

\* C11 (amended): the containers built with envWithMasterMacAddresses (httpd,
\* ironic-conductor, ironic-api, ironic-inspector, static-ip-manager, dnsmasq)
\* have PROVISIONING_MACS exactly once, with the comma-joined MAC addresses,
\* as the last entry before the proxy variables that injectProxyAndCA appends
\* (so as the last entry only when no proxy variable is set); the other
\* containers (baremetal-operator, mariadb, the two ramdisk-logs) do not have
\* the variable.
C11_MacsLastBeforeProxy ==
    rendered.done =>
        \A c \in 1..Len(rendered.Template.Containers) :
            LET container == rendered.Template.Containers[c]
                env == container.Env
                at == Len(env) - NumProxyVars(rendered.info.Proxy)
            IN  IF container.Name \in MacContainers
                THEN /\ NumEnv(container, "PROVISIONING_MACS") = 1
                     /\ at >= 1
                     /\ env[at] = EnvVar("PROVISIONING_MACS",
                                         Join(rendered.info.MasterMacAddresses, ","))
                ELSE NumEnv(container, "PROVISIONING_MACS") = 0

\* C11 witness: ten containers rendered with two MAC addresses and a proxy
\* that sets two variables; the conductor has the joined addresses third from last
C11_Witness ==
    /\ rendered.done
    /\ Len(rendered.Template.Containers) = 10
    /\ NumProxyVars(rendered.info.Proxy) = 2
    /\ LET env == rendered.Template.Containers[4].Env
       IN  /\ rendered.Template.Containers[4].Name = "metal3-ironic-conductor"
           /\ env[Len(env) - 2] = EnvVar("PROVISIONING_MACS", "aa:aa,bb:bb")
    /\ rendered.Template.Containers[2].Name = "metal3-mariadb"
    /\ NumEnv(rendered.Template.Containers[2], "PROVISIONING_MACS") = 0

\* the names of the environment of the container are pairwise distinct
EnvNamesDistinct(container) ==
    \A j, k \in 1..Len(container.Env) :
        j # k => container.Env[j].Name # container.Env[k].Name

\* C12: for every configuration, MAC-address list and proxy descriptor, every
\* init container and every container of the rendered pod template has
\* pairwise distinct environment-variable names.
C12_EnvNamesUnique ==
    rendered.done =>
        /\ \A c \in 1..Len(rendered.Template.InitContainers) :
               EnvNamesDistinct(rendered.Template.InitContainers[c])
        /\ \A c \in 1..Len(rendered.Template.Containers) :
               EnvNamesDistinct(rendered.Template.Containers[c])

\* C12 witness: a template rendered with the three proxy variables set, whose
\* CoreOS-IPA configurator and conductor have the MAC entry and the three
\* proxy entries after their own
C12_Witness ==
    /\ rendered.done
    /\ NumProxyVars(rendered.info.Proxy) = 3
    /\ \E c \in 1..Len(rendered.Template.InitContainers) :
           /\ rendered.Template.InitContainers[c].Name = "metal3-configure-coreos-ipa"
           /\ Len(rendered.Template.InitContainers[c].Env) = 8
    /\ \E c \in 1..Len(rendered.Template.Containers) :
           /\ rendered.Template.Containers[c].Name = "metal3-ironic-conductor"
           /\ Len(rendered.Template.Containers[c].Env) = 13

\* the positions of the list at which a container of that name stands
PositionsOf(containers, name) == {c \in 1..Len(containers) : containers[c].Name = name}

\* C13: the rendered container list has the metal3-dnsmasq container if and
\* only if the provisioning network is not Disabled, whatever the other fields
\* of the configuration are.
C13_DnsmasqIffNotDisabled ==
    rendered.done =>
        ( PositionsOf(rendered.Template.Containers, "metal3-dnsmasq") # {}
            <=> rendered.info.Spec.ProvisioningNetwork # "Disabled" )

\* C13 witness: an Unmanaged network without a provisioning IP: no
\* static-ip-manager, and dnsmasq as the ninth and last container
C13_Witness ==
    /\ rendered.done
    /\ rendered.info.Spec.ProvisioningNetwork = "Unmanaged"
    /\ rendered.info.Spec.ProvisioningIP = ""
    /\ PositionsOf(rendered.Template.Containers, "metal3-dnsmasq") = {9}
    /\ Len(rendered.Template.Containers) = 9

\* the container is the downloader of the live images at these URLs
IsLiveDownloader(container, urls) ==
    /\ container.Name = "metal3-machine-os-downloader"
    /\ container.Env[1] = EnvVar("machineImageUrl", urls)

\* the live-OS URLs of the configuration that are set, comma-joined
JoinedLiveURLs(config) == Join(getPreProvisioningOSDownloadURLs(config), ",")

\* some live-OS URL of the configuration is set
HasLiveURLs(config) ==
    \/ config.PreProvisioningOSDownloadURLs.IsoURL # ""
    \/ config.PreProvisioningOSDownloadURLs.KernelURL # ""
    \/ config.PreProvisioningOSDownloadURLs.RootfsURL # ""
    \/ config.PreProvisioningOSDownloadURLs.InitramfsURL # ""

\* the snapshot with the ISO URL cleared
WithoutIsoURL(i) == [i EXCEPT !.Spec.PreProvisioningOSDownloadURLs.IsoURL = ""]

\* C14: the rendered init containers have the CoreOS-IPA configurator if and
\* only if some live-OS URL is set and the ISO URL is set; the configurator
\* stands right after the downloader of the live images; and rendering the
\* same snapshot with the ISO URL cleared, other live URLs remaining, gives no
\* configurator but still the downloader of the live images.
C14_ConfiguratorIffIso ==
    rendered.done =>
        LET init == rendered.Template.InitContainers
            config == rendered.info.Spec
            cleared == WithoutIsoURL(rendered.info)
            initCleared == newMetal3InitContainers(cleared)
        IN  /\ PositionsOf(init, "metal3-configure-coreos-ipa") # {}
                   <=> (HasLiveURLs(config) /\ config.PreProvisioningOSDownloadURLs.IsoURL # "")
            /\ \A k \in PositionsOf(init, "metal3-configure-coreos-ipa") :
                   /\ k > 1
                   /\ IsLiveDownloader(init[k - 1], JoinedLiveURLs(config))
            /\ (config.PreProvisioningOSDownloadURLs.IsoURL # "" /\ HasLiveURLs(cleared.Spec))
                   => /\ PositionsOf(initCleared, "metal3-configure-coreos-ipa") = {}
                      /\ \E k \in 1..Len(initCleared) :
                             IsLiveDownloader(initCleared[k], JoinedLiveURLs(cleared.Spec))

\* C14 witness: the four live URLs set, on a Managed network with a
\* provisioning IP: static-ip-set, the downloader of the four live images,
\* then the configurator
C14_Witness ==
    /\ rendered.done
    /\ rendered.info.Spec.PreProvisioningOSDownloadURLs.IsoURL = "iso"
    /\ rendered.info.Spec.PreProvisioningOSDownloadURLs.KernelURL = "kernel"
    /\ Len(rendered.Template.InitContainers) >= 3
    /\ rendered.Template.InitContainers[1].Name = "metal3-static-ip-set"
    /\ IsLiveDownloader(rendered.Template.InitContainers[2], "iso,kernel,rootfs,initramfs")
    /\ rendered.Template.InitContainers[3].Name = "metal3-configure-coreos-ipa"

LastIsDelete == last.op = "DeleteMetal3Deployment"

\* C15: DeleteMetal3Deployment returns no error when the orchestrator removed
\* the deployment or answered that there is none, and the deployment is then
\* absent; any other error of the orchestrator is returned as it is; and a
\* delete of an absent deployment leaves it absent, whatever it returns.
C15_DeleteIdempotent ==
    /\ [](LastIsDelete =>
             /\ last.calls = <<"delete">>
             /\ last.deleteErr \in {NilErr, ErrNotFound}
                    => last.err = NilErr /\ ~deployment.exists
             /\ last.deleteErr \notin {NilErr, ErrNotFound}
                    => last.err = last.deleteErr /\ last.err # NilErr)
    /\ [][(~deployment.exists /\ last'.op = "DeleteMetal3Deployment")
              => ~deployment'.exists]_vars

\* C15 witness: a delete of a deployment that was already absent: the
\* orchestrator answered not-found and DeleteMetal3Deployment returned nil
C15_Witness ==
    /\ LastIsDelete
    /\ last.deleteErr = ErrNotFound
    /\ last.err = NilErr
    /\ ~deployment.exists

\* an apply was issued by the reconcile that last' records
ApplyIssued == Issued(last'.calls, "apply")

\* C16: a reconcile that issues an apply sets the rollout-start timestamp to
\* the current time, whatever the apply answers; a reconcile that issues none
\* and the other operations leave it as it is; the passing of time only adds
\* to the time elapsed since it (which the model saturates at MaxTime).  So
\* the timestamp is the time of the last apply issued, or the process start.
C16_TimestampIsLastApply ==
    /\ [][(EnsureMetal3Deployment /\ ApplyIssued)
              => (deploymentRolloutStartTime' = now /\ now' = now)]_vars
    /\ [][(EnsureMetal3Deployment /\ ~ApplyIssued)
              => UNCHANGED <<now, deploymentRolloutStartTime>>]_vars
    /\ [][(GetDeploymentState \/ DeleteMetal3Deployment \/ RolloutProgress)
              => UNCHANGED <<now, deploymentRolloutStartTime>>]_vars
    /\ [][Tick => (now' - deploymentRolloutStartTime' =
                      IF SinceRolloutStart < MaxTime THEN SinceRolloutStart + 1
                      ELSE MaxTime)]_vars

\* C16 witness: minutes after the process started, a reconcile whose apply
\* failed has just set the timestamp to the current time
C16_Witness ==
    /\ LastIsEnsure
    /\ last.applyErr # NilErr
    /\ now >= 2
    /\ deploymentRolloutStartTime = now

\* C17 (as claimed): the timeout overrides only when the elapsed time exceeds
\* it: on a deployment whose condition is Progressing, as long as no more than
\* exactly 5 minutes have passed since the rollout started, the state that
\* GetDeploymentState has reported is Progressing.  (Under StatusSpec the
\* deployment does not change and the elapsed time only grows, so a report of
\* ReplicaFailure seen at 5 minutes was made at 5 minutes or before.)
C17_ExactTimeoutStillProgressing ==
    ( /\ LastStateWasRead
      /\ deployment.exists
      /\ CountsAsProgressing(deployment.Conditions)
      /\ SinceRolloutStart = deploymentRolloutTimeout )
        => last.state = "Progressing"

\* C18: one EnsureMetal3Deployment issues at most one apply, then at most one
\* get, then at most one delete; the get only when the apply failed, the
\* delete only when the get succeeded and fetched a selector that is not the
\* rendered one.
C18_NoInternalRetry ==
    LastIsEnsure =>
        /\ last.calls \in {<<>>, <<"apply">>, <<"apply", "get">>, <<"apply", "get", "delete">>}
        /\ Issued(last.calls, "get") => last.applyErr # NilErr
        /\ Issued(last.calls, "delete")
               => /\ last.getErr = NilErr
                  /\ last.selector # NilSelector
                  /\ last.selector.MatchLabels # selector.MatchLabels

\* C18 witness: a reconcile that went through the three calls, the apply
\* rejected for the selector, the old deployment fetched and then deleted
C18_Witness ==
    /\ LastIsEnsure
    /\ last.calls = <<"apply", "get", "delete">>
    /\ last.applyErr = ErrInvalid
    /\ last.selector.MatchLabels = OldLabels
    /\ last.deleteErr = NilErr
    /\ ~deployment.exists

\* the names of the containers of the list are pairwise distinct
NamesDistinct(containers) ==
    \A j, k \in 1..Len(containers) : j # k => containers[j].Name # containers[k].Name

\* C19 (as claimed): for every configuration the names of the rendered init
\* containers are pairwise distinct, and so are the names of the rendered
\* containers, also when a live-OS URL and the single-asset OS URL are both set.
C19_ContainerNamesUnique ==
    rendered.done =>
        /\ NamesDistinct(rendered.Template.InitContainers)
        /\ NamesDistinct(rendered.Template.Containers)

====
